---- MODULE Spec2Model ----
(***************************************************************************)
(* A model of src/app.py: a Flask service that fetches a GA4 report        *)
(* (active users by country), formats it as a text digest and posts it to  *)
(* a Discord webhook, from a background scheduler thread and from the      *)
(* /trigger endpoint.                                                      *)
(*                                                                         *)
(* Strings are sequences of characters (Chars turns a literal into one).   *)
(* Time is counted in minutes; timers hold the minutes that remain.        *)
(***************************************************************************)
EXTENDS Integers, Sequences, FiniteSets, TLC

VARIABLES
    env,        \* the three environment values read at lines 25-27
    mpc,        \* per process: where the main thread is
    listening,  \* whether the server socket is open
    spc,        \* per process: where the scheduler thread is
    next_run,   \* per process: minutes until the registered job's next_run (-1: no job registered)
    sleep,      \* per process: minutes left of time.sleep(60)
    elapsed,    \* per process: minutes since the timer was last (re)armed, up to
                \* Interval, and past it for as long as a running job is followed
    rpc,        \* per request slot: where the request handler is
    response,   \* per request slot: the HTTP response sent
    jpc,        \* per job context: where analytics_job is
    message,    \* per job context: analytics_job's local variable message
    sent,       \* per job context: the argument send_to_discord received
    log,        \* per job context: the branch send_to_discord logged
    reqs,       \* per job context: run_report requests issued in this invocation
    posts,      \* per job context: requests.post attempts in this invocation
    calls,      \* per job context: send_to_discord invocations in this invocation
    did,        \* per job context: what the provider did in this invocation
    hook,       \* per job context: what the webhook did in this invocation
    ga          \* the services called: the rows the analytics provider holds for
                \* the property, what its errors say, the statuses the webhook
                \* answers with, and for how many minutes the time they take
                \* to answer a fired job is followed

vars == <<env, mpc, listening, spc, next_run, sleep, elapsed, rpc, response,
          jpc, message, sent, log, reqs, posts, calls, did, hook, ga>>

----------------------------------------------------------------------------
(* Bounds of the model *)

MaxReqs == 1
MaxRows == 2

\* A running job is followed for this many minutes; after that only "this
\* long or longer" is known of it.
MaxOverrun == 1

(* Program constants *)

Interval == 10
PollSleep == 1
SuccessStatus == 204
HttpOk == 200

----------------------------------------------------------------------------
(* Strings *)

Chars(s) == [i \in 1..Len(s) |-> SubSeq(s, i, i)]

\* The first character of the header, U+1F30D, is one code point.
Globe == <<"U+1F30D">>

Header == Globe \o Chars(" GA4 Analytics Report:\n")

ErrorPrefix == Chars("Error fetching analytics data: ")

IndexErrorText == Chars("list index out of range")

HomeBody == Chars("Service is up and running!")

TriggerBody == Chars("Triggered! Analytics job has been completed.")

----------------------------------------------------------------------------
(* The processes, the request slots and the job contexts *)

\* app.run(debug=True) runs the script twice: the launched process and the
\* reloader's child, which serves the requests.
Procs == {"parent", "child"}

ReqNames == <<"req1", "req2", "req3", "req4">>

Reqs == {ReqNames[i] : i \in 1..MaxReqs}

\* A job runs on a scheduler thread (named by its process) or in a request handler.
Ctx == Procs \cup Reqs

----------------------------------------------------------------------------
(* Configuration: os.getenv gives None for an unset variable *)

Unset == "<None>"

ValidPropertyId == "123456789"

ValidWebhookUrl == "https://discord.com/api/webhooks/1/token"

ValidCredentials == "{service account key}"

PropertyIdValues == {Unset, "", "not a property id", ValidPropertyId}

WebhookUrlValues == {Unset, "", "not a url", ValidWebhookUrl}

CredentialValues == {Unset, "", "{not json", "{}", ValidCredentials}

Environments ==
    [GA_PROPERTY_ID : PropertyIdValues,
     DISCORD_WEBHOOK_URL : WebhookUrlValues,
     GOOGLE_APPLICATION_CREDENTIALS_JSON : CredentialValues]

ValidEnvironment ==
    [GA_PROPERTY_ID |-> ValidPropertyId,
     DISCORD_WEBHOOK_URL |-> ValidWebhookUrl,
     GOOGLE_APPLICATION_CREDENTIALS_JSON |-> ValidCredentials]

\* Python's `not v` for an environment value: None and "" are falsy.
Falsy(v) == v = Unset \/ v = ""

\* Lines 37-39: all([...]) over the three values.
AllPresentLoose(e) ==
    ~Falsy(e.GA_PROPERTY_ID) /\ ~Falsy(e.GOOGLE_APPLICATION_CREDENTIALS_JSON)

AllPresent(e) ==
    /\ ~Falsy(e.GA_PROPERTY_ID)
    /\ ~Falsy(e.DISCORD_WEBHOOK_URL)
    /\ ~Falsy(e.GOOGLE_APPLICATION_CREDENTIALS_JSON)

\* Line 43: json.loads raises JSONDecodeError on text that is not JSON.
JsonLoads(v) == v \in {"{}", ValidCredentials}

\* Line 44: from_service_account_info raises on JSON that is no service-account key.
FromServiceAccountInfo(v) == v = ValidCredentials

\* Lines 42-51: both steps succeed, otherwise exit(1).
CredentialsLoad(e) ==
    /\ JsonLoads(e.GOOGLE_APPLICATION_CREDENTIALS_JSON)
    /\ FromServiceAccountInfo(e.GOOGLE_APPLICATION_CREDENTIALS_JSON)

\* What the code never checks at startup: the provider rejects every report
\* request for a malformed property id, and requests.post raises on a
\* malformed URL.
PropertyIdWellFormed(e) == e.GA_PROPERTY_ID = ValidPropertyId

WebhookUrlWellFormed(e) == e.DISCORD_WEBHOOK_URL = ValidWebhookUrl

WellFormed(e) ==
    /\ PropertyIdWellFormed(e)
    /\ WebhookUrlWellFormed(e)
    /\ CredentialsLoad(e)

----------------------------------------------------------------------------
(* The analytics provider *)

Countries == {Chars("US"), Chars("DE")}

UserCounts == {Chars("120"), Chars("45")}

Row(country, users) ==
    [dimension_values |-> <<country>>, metric_values |-> <<users>>]

\* Rows as the report request asks for them: one dimension, one metric.
PairRows == {Row(c, u) : c \in Countries, u \in UserCounts}

\* A row that lacks a value makes row processing raise IndexError.
BrokenRows ==
    {[dimension_values |-> <<>>, metric_values |-> <<Chars("7")>>],
     [dimension_values |-> <<Chars("FR")>>, metric_values |-> <<>>]}

SeqsUpTo(S, n) == UNION {[1..k -> S] : k \in 0..n}

\* str(e) of the errors the provider client raises; an exception may carry no text.
ErrorTexts == {<<>>, Chars("403 denied")}

ClientRaises(e) == [kind |-> "client_raises", err |-> e, rows |-> <<>>]

RunReportRaises(e) == [kind |-> "run_report_raises", err |-> e, rows |-> <<>>]

Responds(rows) == [kind |-> "response", err |-> <<>>, rows |-> rows]

----------------------------------------------------------------------------
(* get_analytics_data, lines 53-80 *)

FormatRowSwapped(country, users) ==
    users \o Chars(": ") \o country \o Chars(" users\n")

\* Line 74: f"{country}: {users} users\n"
FormatRow(country, users) ==
    country \o Chars(": ") \o users \o Chars(" users\n")

\* Lines 71-74: the loop over response.rows, appending one line per row; a
\* row without a first dimension or metric value raises IndexError.
RECURSIVE AppendRows(_, _)
AppendRows(msg, rows) ==
    IF rows = <<>> THEN [raised |-> FALSE, value |-> msg]
    ELSE LET row == Head(rows) IN
         IF row.dimension_values = <<>> \/ row.metric_values = <<>>
         THEN [raised |-> TRUE, value |-> IndexErrorText]
         ELSE AppendRows(
                  msg \o FormatRow(row.dimension_values[1], row.metric_values[1]),
                  Tail(rows))

ErrorMessageBare(err) == err

\* Line 80: f"Error fetching analytics data: {str(e)}"
ErrorMessage(err) == ErrorPrefix \o err

\* The string get_analytics_data returns for what the provider does.
get_analytics_data(b) ==
    IF b.kind = "client_raises" \/ b.kind = "run_report_raises"
    THEN ErrorMessage(b.err)
    ELSE LET r == AppendRows(Header, b.rows) IN
         IF r.raised THEN ErrorMessage(r.value) ELSE r.value

\* Whether the report request of line 67 is issued: not when constructing
\* the client (line 57) raised first.
IssuesRequest(b) == b.kind # "client_raises"

----------------------------------------------------------------------------
(* send_to_discord, lines 82-98 *)

PostsAlways(msg) == TRUE

\* Lines 84-86: `if not message: return`
ShouldPost(msg) == msg # <<>>

Status(s) == [kind |-> "status", status |-> s]

TransportFailure == [kind |-> "exception", status |-> 0]

NoOutcome == [kind |-> "none", status |-> 0]

\* The statuses a webhook may answer with: the one the code takes for
\* success, another 2xx, and a server error.
Statuses == {200, SuccessStatus, 500}

\* What requests.post can do at a webhook answering with these statuses.
PostOutcomes(statuses) == {Status(st) : st \in statuses} \cup {TransportFailure}

ClassifyAny2xx(o) ==
    IF o.kind = "status" /\ o.status < 300 THEN "success" ELSE "failure"

\* Lines 92-98: which branch logs.
Classify(o) ==
    IF o.kind = "status" /\ o.status = SuccessStatus THEN "success" ELSE "failure"

EscapesOnTransport(o) == o.kind = "exception"

EscapesOnStatus(o) == o.kind = "status" /\ o.status # SuccessStatus

\* Lines 88, 97: the try block covers the post and the status check, so
\* nothing escapes send_to_discord.
Escapes(o) == FALSE

----------------------------------------------------------------------------
(* Threads. Nothing orders the threads: the steps of different threads
   interleave in every way. No variable is written by two threads (message
   and the rest of a job's frame are locals, the timer belongs to its
   scheduler thread). *)

MainThread(p) == <<"main", p>>

SchedThread(p) == <<"sched", p>>

Handler(r) == <<"req", r>>

Threads ==
    {MainThread(p) : p \in Procs} \cup {SchedThread(p) : p \in Procs}
        \cup {Handler(r) : r \in Reqs}

\* The thread a job context runs on.
ThreadOf(c) == IF c \in Procs THEN SchedThread(c) ELSE Handler(c)

\* The places of analytics_job that are not blocked in a network call.
Stepping(c) == jpc[c] \in {"start", "notify", "end", "raised"}

\* Whether thread t is between two blocking points.
Busy(t) ==
    IF t[1] = "main" THEN mpc[t[2]] \in {"load_credentials", "main", "app_run"}
    ELSE IF t[1] = "sched" THEN spc[t[2]] \in {"register", "poll"} \/ Stepping(t[2])
    ELSE Stepping(t[2])

----------------------------------------------------------------------------
(* What the two outbound calls can do, given the configuration *)

\* Constructing the client may raise, the report request may raise, or the
\* provider answers with its rows. A report request for a malformed property
\* id is always refused.
Behaviours(e, world) ==
    {ClientRaises(world.err), RunReportRaises(world.err)}
        \cup (IF PropertyIdWellFormed(e) THEN {Responds(world.rows)} ELSE {})

\* requests.post raises on a malformed URL before anything is sent.
WebhookOutcomes(e, world) ==
    IF WebhookUrlWellFormed(e) THEN PostOutcomes(world.webhook) ELSE {TransportFailure}

\* The services of the running program: a webhook that accepts or fails,
\* and a provider with the rows of the spec's end-to-end scenario 1.
ScenarioStatuses == {SuccessStatus, 500}

ScenarioRows == <<Row(Chars("US"), Chars("120")), Row(Chars("DE"), Chars("45"))>>

----------------------------------------------------------------------------
(* analytics_job, lines 100-105: one job context c *)

jobvars == <<jpc, message, sent, log, reqs, posts, calls, did, hook>>

IsError(msg) ==
    Len(msg) >= Len(ErrorPrefix) /\ SubSeq(msg, 1, Len(ErrorPrefix)) = ErrorPrefix

SkipNotifyOnError(msg) == IF IsError(msg) THEN "end" ELSE "notify"

\* Lines 103-104: send_to_discord(message) follows get_analytics_data()
\* unconditionally.
AfterFetch(msg) == "notify"

RetryOnFailure(o) == IF Classify(o) = "failure" THEN "notify" ELSE "end"

\* Lines 90-98: after the one post, send_to_discord returns; there is no loop.
AfterPost(o) == "end"

\* The caller enters analytics_job (line 102).
analytics_job(c) ==
    /\ jpc' = [jpc EXCEPT ![c] = "start"]
    /\ message' = [message EXCEPT ![c] = <<>>]
    /\ sent' = [sent EXCEPT ![c] = <<>>]
    /\ log' = [log EXCEPT ![c] = "none"]
    /\ reqs' = [reqs EXCEPT ![c] = 0]
    /\ posts' = [posts EXCEPT ![c] = 0]
    /\ calls' = [calls EXCEPT ![c] = 0]
    /\ did' = [did EXCEPT ![c] = "none"]
    /\ hook' = [hook EXCEPT ![c] = NoOutcome]

\* analytics_job returns (or an exception leaves it): its frame is gone.
LeaveJob(c) ==
    /\ jpc' = [jpc EXCEPT ![c] = "idle"]
    /\ message' = [message EXCEPT ![c] = <<>>]
    /\ sent' = [sent EXCEPT ![c] = <<>>]
    /\ log' = [log EXCEPT ![c] = "none"]
    /\ reqs' = [reqs EXCEPT ![c] = 0]
    /\ posts' = [posts EXCEPT ![c] = 0]
    /\ calls' = [calls EXCEPT ![c] = 0]
    /\ did' = [did EXCEPT ![c] = "none"]
    /\ hook' = [hook EXCEPT ![c] = NoOutcome]

\* Lines 55-67: construct the client and send the report request; when the
\* construction raises, the except branch returns the error string at once.
FetchBegin(c) ==
    /\ jpc[c] = "start"
    /\ \E b \in Behaviours(env, ga) :
          IF IssuesRequest(b)
          THEN /\ reqs' = [reqs EXCEPT ![c] = @ + 1]
               /\ jpc' = [jpc EXCEPT ![c] = "run_report"]
               /\ UNCHANGED message
               /\ UNCHANGED did
          ELSE /\ message' = [message EXCEPT ![c] = get_analytics_data(b)]
               /\ jpc' = [jpc EXCEPT ![c] = AfterFetch(get_analytics_data(b))]
               /\ did' = [did EXCEPT ![c] = b.kind]
               /\ UNCHANGED reqs
    /\ UNCHANGED <<sent, log, posts, calls, hook>>
    /\ UNCHANGED <<env, mpc, listening, spc, next_run, sleep, elapsed, rpc, response, ga>>

\* Lines 67-80: client.run_report returns or raises, the rows are formatted,
\* and get_analytics_data returns its string into message (line 103).
RunReportReturns(c) ==
    /\ jpc[c] = "run_report"
    /\ \E b \in Behaviours(env, ga) :
          /\ IssuesRequest(b)
          /\ message' = [message EXCEPT ![c] = get_analytics_data(b)]
          /\ jpc' = [jpc EXCEPT ![c] = AfterFetch(get_analytics_data(b))]
          /\ did' = [did EXCEPT ![c] = b.kind]
    /\ UNCHANGED <<sent, log, reqs, posts, calls, hook>>
    /\ UNCHANGED <<env, mpc, listening, spc, next_run, sleep, elapsed, rpc, response, ga>>

\* send_to_discord handed the message of whichever job is in progress, as
\* if message were a module-level name shared by the jobs.
SendSharedMessage(c) ==
    /\ jpc[c] = "notify"
    /\ \E d \in Ctx :
          /\ jpc[d] \notin {"idle", "start", "run_report"}
          /\ sent' = [sent EXCEPT ![c] = message[d]]
          /\ IF ShouldPost(message[d])
             THEN /\ posts' = [posts EXCEPT ![c] = @ + 1]
                  /\ jpc' = [jpc EXCEPT ![c] = "post"]
                  /\ UNCHANGED log
             ELSE /\ log' = [log EXCEPT ![c] = "skipped"]
                  /\ jpc' = [jpc EXCEPT ![c] = "end"]
                  /\ UNCHANGED posts
    /\ calls' = [calls EXCEPT ![c] = @ + 1]
    /\ UNCHANGED <<message, reqs, did, hook>>
    /\ UNCHANGED <<env, mpc, listening, spc, next_run, sleep, elapsed, rpc, response, ga>>

\* Lines 104, 82-90: send_to_discord is called with message; an empty
\* message returns at once, any other is posted.
send_to_discord(c) ==
    /\ jpc[c] = "notify"
    /\ sent' = [sent EXCEPT ![c] = message[c]]
    /\ calls' = [calls EXCEPT ![c] = @ + 1]
    /\ IF ShouldPost(message[c])
       THEN /\ posts' = [posts EXCEPT ![c] = @ + 1]
            /\ jpc' = [jpc EXCEPT ![c] = "post"]
            /\ UNCHANGED log
       ELSE /\ log' = [log EXCEPT ![c] = "skipped"]
            /\ jpc' = [jpc EXCEPT ![c] = "end"]
            /\ UNCHANGED posts
    /\ UNCHANGED <<message, reqs, did, hook>>
    /\ UNCHANGED <<env, mpc, listening, spc, next_run, sleep, elapsed, rpc, response, ga>>

\* Lines 90-98: requests.post returns a status or raises; either is logged.
PostReturns(c) ==
    /\ jpc[c] = "post"
    /\ \E o \in WebhookOutcomes(env, ga) :
          /\ hook' = [hook EXCEPT ![c] = o]
          /\ IF Escapes(o)
             THEN /\ jpc' = [jpc EXCEPT ![c] = "raised"]
                  /\ UNCHANGED log
             ELSE /\ jpc' = [jpc EXCEPT ![c] = AfterPost(o)]
                  /\ log' = [log EXCEPT ![c] = Classify(o)]
    /\ UNCHANGED <<message, sent, reqs, posts, calls, did>>
    /\ UNCHANGED <<env, mpc, listening, spc, next_run, sleep, elapsed, rpc, response, ga>>

----------------------------------------------------------------------------
(* Module level and __main__, lines 24-51 and 127-134: the main thread of process p *)

procvars == <<mpc, listening>>

schedvars == <<spc, next_run, sleep, elapsed>>

httpvars == <<rpc, response>>

\* Lines 29-39: exit(1) unless all three values are set and non-empty.
Validate(p) ==
    /\ mpc[p] = "validate"
    /\ mpc' = [mpc EXCEPT ![p] = IF AllPresent(env) THEN "load_credentials" ELSE "exited"]
    /\ UNCHANGED <<env, listening, ga>>
    /\ UNCHANGED <<schedvars, httpvars, jobvars>>

\* Lines 41-51: exit(1) unless the credential blob parses and loads.
LoadCredentials(p) ==
    /\ mpc[p] = "load_credentials"
    /\ mpc' = [mpc EXCEPT ![p] = IF CredentialsLoad(env) THEN "main" ELSE "exited"]
    /\ UNCHANGED <<env, listening, ga>>
    /\ UNCHANGED <<schedvars, httpvars, jobvars>>

\* Lines 127-131: the daemon thread running run_scheduler is started.
StartScheduler(p) ==
    /\ mpc[p] = "main"
    /\ mpc' = [mpc EXCEPT ![p] = "app_run"]
    /\ spc' = [spc EXCEPT ![p] = "started"]
    /\ UNCHANGED <<env, listening, ga, next_run, sleep, elapsed>>
    /\ UNCHANGED <<httpvars, jobvars>>

\* Line 134 in the launched process: with debug=True the server socket is
\* opened and the reloader runs the script again in a child process.
RunWithReloader ==
    /\ mpc["parent"] = "app_run"
    /\ mpc' = [mpc EXCEPT !["parent"] = "supervising", !["child"] = "validate"]
    /\ listening' = TRUE
    /\ UNCHANGED <<env, ga>>
    /\ UNCHANGED <<schedvars, httpvars, jobvars>>

\* Line 134 in the reloader's child: it serves the requests.
ServeForever ==
    /\ mpc["child"] = "app_run"
    /\ mpc' = [mpc EXCEPT !["child"] = "serving"]
    /\ UNCHANGED <<env, listening, ga>>
    /\ UNCHANGED <<schedvars, httpvars, jobvars>>

----------------------------------------------------------------------------
(* run_scheduler, lines 113-125: the scheduler thread of process p *)

AlwaysDue(remaining) == TRUE

\* schedule's Job.should_run, used by run_pending (line 124): now >= next_run.
should_run(remaining) == remaining <= 0

\* Lines 115-117: the job is run at once.
run_scheduler(p) ==
    /\ spc[p] = "started"
    /\ spc' = [spc EXCEPT ![p] = "immediate"]
    /\ analytics_job(p)
    /\ UNCHANGED <<env, ga, next_run, sleep, elapsed>>
    /\ UNCHANGED <<procvars, httpvars>>

\* Line 117 returns (line 105 logged); an exception would end the thread.
ImmediateJobReturns(p) ==
    /\ spc[p] = "immediate"
    /\ jpc[p] \in {"end", "raised"}
    /\ spc' = [spc EXCEPT ![p] = IF jpc[p] = "raised" THEN "dead" ELSE "register"]
    /\ LeaveJob(p)
    /\ UNCHANGED <<env, ga, next_run, sleep, elapsed>>
    /\ UNCHANGED <<procvars, httpvars>>

\* Lines 120-121: every(10).minutes.do(analytics_job) sets next_run to now + 10 minutes.
Register(p) ==
    /\ spc[p] = "register"
    /\ spc' = [spc EXCEPT ![p] = "poll"]
    /\ next_run' = [next_run EXCEPT ![p] = Interval]
    /\ elapsed' = [elapsed EXCEPT ![p] = 0]
    /\ UNCHANGED <<env, ga, sleep>>
    /\ UNCHANGED <<procvars, httpvars, jobvars>>

\* Lines 123-125: run_pending runs the job when it is due; otherwise the
\* loop sleeps for a minute.
run_pending(p) ==
    /\ spc[p] = "poll" \/ (spc[p] = "sleep" /\ sleep[p] = 0)
    /\ IF should_run(next_run[p])
       THEN /\ spc' = [spc EXCEPT ![p] = "firing"]
            /\ analytics_job(p)
            /\ UNCHANGED sleep
       ELSE /\ spc' = [spc EXCEPT ![p] = "sleep"]
            /\ sleep' = [sleep EXCEPT ![p] = PollSleep]
            /\ UNCHANGED jobvars
    /\ UNCHANGED <<env, ga, next_run, elapsed>>
    /\ UNCHANGED <<procvars, httpvars>>

\* A fixed-rate timer: the next run is due an interval after the last one
\* was due, so the minutes the job ran are taken off (and a tick missed
\* meanwhile is due at once).
ScheduleFromDue(ran) == IF ran >= Interval THEN 0 ELSE Interval - ran

\* schedule's Job._schedule_next_run, called by Job.run after the job
\* function has returned: next_run = now + period, however long the job ran.
schedule_next_run(ran) == Interval

\* The fired job returns: schedule's Job.run sets next_run to now + 10
\* minutes, run_pending returns and the loop sleeps (line 125).
FiredJobReturns(p) ==
    /\ spc[p] = "firing"
    /\ jpc[p] \in {"end", "raised"}
    /\ IF jpc[p] = "raised"
       THEN /\ spc' = [spc EXCEPT ![p] = "dead"]
            /\ UNCHANGED <<next_run, sleep, elapsed>>
       ELSE /\ spc' = [spc EXCEPT ![p] = "sleep"]
            /\ next_run' = [next_run EXCEPT ![p] = schedule_next_run(elapsed[p] - Interval)]
            /\ elapsed' = [elapsed EXCEPT ![p] = 0]
            /\ sleep' = [sleep EXCEPT ![p] = PollSleep]
    /\ LeaveJob(p)
    /\ UNCHANGED <<env, ga>>
    /\ UNCHANGED <<procvars, httpvars>>

----------------------------------------------------------------------------
(* The routes, lines 19-22 and 107-111: request slot r *)

NoResponse == [status |-> 0, body |-> <<>>]

\* The server gives each request a handler thread of its own; of the free
\* handlers, which are all alike, the first takes the request.
FirstFree(r) ==
    /\ rpc[r] = "none"
    /\ \A i \in 1..MaxReqs :
          ReqNames[i] = r => \A j \in 1..(i - 1) : rpc[ReqNames[j]] # "none"

\* The server serving only while no scheduler-driven job is in progress, as
\* if the jobs ran on the serving thread.
ServingBetweenJobs ==
    /\ mpc["child"] = "serving"
    /\ \A p \in Procs : spc[p] \notin {"immediate", "firing"}

Serving == mpc["child"] = "serving"

\* A home that runs the job before it answers.
HomeRunsJob(r) ==
    /\ Serving
    /\ FirstFree(r)
    /\ rpc' = [rpc EXCEPT ![r] = "responded"]
    /\ response' = [response EXCEPT ![r] = [status |-> HttpOk, body |-> HomeBody]]
    /\ analytics_job(r)
    /\ UNCHANGED <<env, ga>>
    /\ UNCHANGED <<procvars, schedvars>>

\* GET /: home returns its static text.
home(r) ==
    /\ Serving
    /\ FirstFree(r)
    /\ rpc' = [rpc EXCEPT ![r] = "responded"]
    /\ response' = [response EXCEPT ![r] = [status |-> HttpOk, body |-> HomeBody]]
    /\ UNCHANGED <<env, ga>>
    /\ UNCHANGED <<procvars, schedvars, jobvars>>

\* A manual trigger that runs the job through the scheduler, which re-arms
\* the timer of the serving process.
TriggerRearmsTimer(r) ==
    /\ Serving
    /\ FirstFree(r)
    /\ rpc' = [rpc EXCEPT ![r] = "trigger"]
    /\ analytics_job(r)
    /\ next_run' = [next_run EXCEPT !["child"] = IF @ >= 0 THEN Interval ELSE @]
    /\ elapsed' = [elapsed EXCEPT !["child"] = IF next_run["child"] >= 0 THEN 0 ELSE @]
    /\ UNCHANGED <<env, ga, response, spc, sleep>>
    /\ UNCHANGED procvars

\* GET /trigger: manual_trigger calls analytics_job (lines 109-110).
manual_trigger(r) ==
    /\ Serving
    /\ FirstFree(r)
    /\ rpc' = [rpc EXCEPT ![r] = "trigger"]
    /\ analytics_job(r)
    /\ UNCHANGED <<env, ga, response>>
    /\ UNCHANGED <<procvars, schedvars>>

ServerError == [status |-> 500, body |-> Chars("Internal Server Error")]

\* Line 111; an exception leaving the view would make Flask answer 500.
TriggerResponse(raised) ==
    IF raised THEN ServerError ELSE [status |-> HttpOk, body |-> TriggerBody]

\* analytics_job returns (line 105 logged) and the response is sent.
TriggerReturns(r) ==
    /\ rpc[r] = "trigger"
    /\ jpc[r] \in {"end", "raised"}
    /\ rpc' = [rpc EXCEPT ![r] = "responded"]
    /\ response' = [response EXCEPT ![r] = TriggerResponse(jpc[r] = "raised")]
    /\ LeaveJob(r)
    /\ UNCHANGED <<env, ga>>
    /\ UNCHANGED <<procvars, schedvars>>

\* The client takes the response; the slot is free for the next request.
Consume(r) ==
    /\ rpc[r] = "responded"
    /\ rpc' = [rpc EXCEPT ![r] = "none"]
    /\ response' = [response EXCEPT ![r] = NoResponse]
    /\ UNCHANGED <<env, ga>>
    /\ UNCHANGED <<procvars, schedvars, jobvars>>

----------------------------------------------------------------------------
(* Time: a minute passes while every thread is blocked (asleep, in a network
   call, waiting for a request) or gone; a thread that can run does so
   within the minute *)

TimeCanPass ==
    /\ \A t \in Threads : ~Busy(t)
    /\ \A p \in Procs :
          /\ mpc[p] # "validate"
          /\ spc[p] # "started"
          /\ spc[p] = "sleep" => sleep[p] > 0

Tick ==
    /\ TimeCanPass
    /\ next_run' = [p \in Procs |-> IF next_run[p] > 0 THEN next_run[p] - 1 ELSE next_run[p]]
    /\ sleep' = [p \in Procs |-> IF sleep[p] > 0 THEN sleep[p] - 1 ELSE 0]
    /\ elapsed' = [p \in Procs |->
                      IF next_run[p] >= 0 /\ elapsed[p] < Interval + ga.followed
                      THEN elapsed[p] + 1 ELSE elapsed[p]]
    /\ UNCHANGED <<env, ga, spc>>
    /\ UNCHANGED <<procvars, httpvars, jobvars>>

----------------------------------------------------------------------------
(* The program *)

IdleJobs ==
    /\ jpc = [c \in Ctx |-> "idle"]
    /\ message = [c \in Ctx |-> <<>>]
    /\ sent = [c \in Ctx |-> <<>>]
    /\ log = [c \in Ctx |-> "none"]
    /\ reqs = [c \in Ctx |-> 0]
    /\ posts = [c \in Ctx |-> 0]
    /\ calls = [c \in Ctx |-> 0]
    /\ did = [c \in Ctx |-> "none"]
    /\ hook = [c \in Ctx |-> NoOutcome]

Init ==
    /\ env \in Environments
    /\ ga = [rows |-> ScenarioRows, err |-> Chars("403 denied"), webhook |-> ScenarioStatuses, followed |-> 0]
    /\ mpc = [p \in Procs |-> IF p = "parent" THEN "validate" ELSE "off"]
    /\ listening = FALSE
    /\ spc = [p \in Procs |-> "off"]
    /\ next_run = [p \in Procs |-> -1]
    /\ sleep = [p \in Procs |-> 0]
    /\ elapsed = [p \in Procs |-> 0]
    /\ rpc = [r \in Reqs |-> "none"]
    /\ response = [r \in Reqs |-> NoResponse]
    /\ IdleJobs

Next ==
    \/ \E p \in Procs : Validate(p)
    \/ \E p \in Procs : LoadCredentials(p)
    \/ \E p \in Procs : StartScheduler(p)
    \/ RunWithReloader
    \/ ServeForever
    \/ \E p \in Procs : run_scheduler(p)
    \/ \E p \in Procs : ImmediateJobReturns(p)
    \/ \E p \in Procs : Register(p)
    \/ \E p \in Procs : run_pending(p)
    \/ \E p \in Procs : FiredJobReturns(p)
    \/ \E r \in Reqs : home(r)
    \/ \E r \in Reqs : manual_trigger(r)
    \/ \E r \in Reqs : TriggerReturns(r)
    \/ \E r \in Reqs : Consume(r)
    \/ \E c \in Ctx : FetchBegin(c)
    \/ \E c \in Ctx : RunReportReturns(c)
    \/ \E c \in Ctx : send_to_discord(c)
    \/ \E c \in Ctx : PostReturns(c)
    \/ Tick

Spec == Init /\ [][Next]_vars

\* The steps of the scheduler thread of process p, the jobs it runs included.
SchedulerStep(p) ==
    \/ run_scheduler(p)
    \/ ImmediateJobReturns(p)
    \/ Register(p)
    \/ run_pending(p)
    \/ FiredJobReturns(p)
    \/ FetchBegin(p)
    \/ RunReportReturns(p)
    \/ send_to_discord(p)
    \/ PostReturns(p)

\* The steps of the main thread of process p.
MainStep(p) ==
    \/ Validate(p)
    \/ LoadCredentials(p)
    \/ StartScheduler(p)
    \/ p = "parent" /\ RunWithReloader
    \/ p = "child" /\ ServeForever

\* The steps of the handler thread of request r between its blocking calls.
HandlerStep(r) ==
    \/ FetchBegin(r)
    \/ send_to_discord(r)
    \/ TriggerReturns(r)

\* The program with its scheduling: a thread that can run does run, and the
\* network calls of the jobs a scheduler thread runs return; time passes
\* (time.sleep(60) returns): the minute's tick waits only for the threads
\* that are running between two blocking calls, which takes them no time,
\* so it is taken if it is possible again and again (strong fairness).
\* Requests need not arrive, and the network calls of a /trigger job need
\* not return.
FairSpec ==
    /\ Spec
    /\ SF_vars(Tick)
    /\ \A p \in Procs : WF_vars(MainStep(p)) /\ WF_vars(SchedulerStep(p))
    /\ \A r \in Reqs : WF_vars(HandlerStep(r))

----------------------------------------------------------------------------
(* get_analytics_data and send_to_discord on their own: the job of one
   /trigger request, in a running service, over every provider content and
   every message of the bounded sets *)

FrameRequest == ReqNames[1]

RunningService ==
    /\ mpc = [p \in Procs |-> IF p = "parent" THEN "supervising" ELSE "serving"]
    /\ listening = TRUE
    /\ spc = [p \in Procs |-> "sleep"]
    /\ next_run = [p \in Procs |-> Interval]
    /\ sleep = [p \in Procs |-> PollSleep]
    /\ elapsed = [p \in Procs |-> 0]
    /\ rpc = [r \in Reqs |-> IF r = FrameRequest THEN "trigger" ELSE "none"]
    /\ response = [r \in Reqs |-> NoResponse]

ProviderContents ==
    [rows : SeqsUpTo(PairRows \cup BrokenRows, MaxRows), err : ErrorTexts,
     webhook : {ScenarioStatuses}, followed : {0}]

InitFetch ==
    /\ env = ValidEnvironment
    /\ ga \in ProviderContents
    /\ RunningService
    /\ jpc = [c \in Ctx |-> IF c = FrameRequest THEN "start" ELSE "idle"]
    /\ message = [c \in Ctx |-> <<>>]
    /\ sent = [c \in Ctx |-> <<>>]
    /\ log = [c \in Ctx |-> "none"]
    /\ reqs = [c \in Ctx |-> 0]
    /\ posts = [c \in Ctx |-> 0]
    /\ calls = [c \in Ctx |-> 0]
    /\ did = [c \in Ctx |-> "none"]
    /\ hook = [c \in Ctx |-> NoOutcome]

NextFetch ==
    \/ \E c \in Ctx : FetchBegin(c)
    \/ \E c \in Ctx : RunReportReturns(c)

SpecFetch == InitFetch /\ [][NextFetch]_vars

\* The empty message, and every string get_analytics_data can return.
Messages ==
    {<<>>} \cup
    {get_analytics_data(b) : b \in UNION {Behaviours(ValidEnvironment, w) : w \in ProviderContents}}

InitNotify ==
    /\ env \in {ValidEnvironment, [ValidEnvironment EXCEPT !.DISCORD_WEBHOOK_URL = "not a url"]}
    /\ ga = [rows |-> ScenarioRows, err |-> Chars("403 denied"), webhook |-> Statuses, followed |-> 0]
    /\ RunningService
    /\ jpc = [c \in Ctx |-> IF c = FrameRequest THEN "notify" ELSE "idle"]
    /\ \E m \in Messages : message = [c \in Ctx |-> IF c = FrameRequest THEN m ELSE <<>>]
    /\ sent = [c \in Ctx |-> <<>>]
    /\ log = [c \in Ctx |-> "none"]
    /\ reqs = [c \in Ctx |-> 0]
    /\ posts = [c \in Ctx |-> 0]
    /\ calls = [c \in Ctx |-> 0]
    /\ did = [c \in Ctx |-> "none"]
    /\ hook = [c \in Ctx |-> NoOutcome]

NextNotify ==
    \/ \E c \in Ctx : send_to_discord(c)
    \/ \E c \in Ctx : PostReturns(c)

SpecNotify == InitNotify /\ [][NextNotify]_vars

----------------------------------------------------------------------------
(* run_scheduler's loop on its own: the two scheduler threads of a running
   service and the passing of time, with no request arriving; the minutes
   a fired job takes are followed up to MaxOverrun *)

InitSchedule ==
    /\ env = ValidEnvironment
    /\ ga = [rows |-> ScenarioRows, err |-> Chars("403 denied"),
             webhook |-> ScenarioStatuses, followed |-> MaxOverrun]
    /\ mpc = [p \in Procs |-> IF p = "parent" THEN "supervising" ELSE "serving"]
    /\ listening = TRUE
    /\ spc = [p \in Procs |-> "register"]
    /\ next_run = [p \in Procs |-> -1]
    /\ sleep = [p \in Procs |-> 0]
    /\ elapsed = [p \in Procs |-> 0]
    /\ rpc = [r \in Reqs |-> "none"]
    /\ response = [r \in Reqs |-> NoResponse]
    /\ IdleJobs

NextSchedule ==
    \/ \E p \in Procs : Register(p)
    \/ \E p \in Procs : run_pending(p)
    \/ \E p \in Procs : FiredJobReturns(p)
    \/ \E c \in Ctx : FetchBegin(c)
    \/ \E c \in Ctx : RunReportReturns(c)
    \/ \E c \in Ctx : send_to_discord(c)
    \/ \E c \in Ctx : PostReturns(c)
    \/ Tick

SpecSchedule == InitSchedule /\ [][NextSchedule]_vars

----------------------------------------------------------------------------
(* Claims *)

Contains(s, sub) ==
    \E i \in 0..(Len(s) - Len(sub)) : SubSeq(s, i + 1, i + Len(sub)) = sub

SomeMissing(e) ==
    \/ e.GA_PROPERTY_ID \in {Unset, ""}
    \/ e.DISCORD_WEBHOOK_URL \in {Unset, ""}
    \/ e.GOOGLE_APPLICATION_CREDENTIALS_JSON \in {Unset, ""}

NothingStarted ==
    /\ ~listening
    /\ mpc["child"] = "off"
    /\ \A p \in Procs : spc[p] = "off" /\ next_run[p] = -1
    /\ \A r \in Reqs : rpc[r] = "none"
    /\ \A c \in Ctx : jpc[c] = "idle" /\ reqs[c] = 0 /\ posts[c] = 0 /\ calls[c] = 0

\* C1: when one of the three configuration values is unset or empty, the
\* process never opens the server socket, never starts a scheduler thread
\* and never runs a job (no report request, no webhook post): it exits.
C1_MissingConfigNothingStarts ==
    SomeMissing(env) =>
        /\ NothingStarted
        /\ mpc["parent"] \in {"validate", "exited"}

\* C1 witness: only the webhook URL is missing, and the process has exited.
C1_Witness ==
    /\ env = [ValidEnvironment EXCEPT !.DISCORD_WEBHOOK_URL = Unset]
    /\ mpc["parent"] = "exited"

\* C2 as claimed: when one of the three values is present but malformed, the
\* process fails at startup and starts neither the scheduler nor the server.
C2_MalformedConfigNothingStarts ==
    (~SomeMissing(env) /\ ~WellFormed(env)) =>
        /\ NothingStarted
        /\ mpc["parent"] \in {"validate", "load_credentials", "exited"}


\* Whether the fetch of context c failed: the client or the request raised,
\* or a row of the response could not be processed.
FetchFailed(c) ==
    \/ did[c] \in {"client_raises", "run_report_raises"}
    \/ /\ did[c] = "response"
       /\ \E i \in 1..Len(ga.rows) :
             ga.rows[i].dimension_values = <<>> \/ ga.rows[i].metric_values = <<>>

\* The description of the error that made the fetch of context c fail.
Description(c) == IF did[c] = "response" THEN IndexErrorText ELSE ga.err

\* C3: in every job invocation the Notifier is invoked only after the
\* Fetcher has returned, at most once while the job runs and exactly once
\* when it ends, with exactly the string the Fetcher returned; a failed
\* fetch hands the Notifier its non-empty error text.
C3_NotifierGetsFetchedString ==
    \A c \in Ctx :
        /\ calls[c] <= 1
        /\ did[c] = "none" => calls[c] = 0
        /\ calls[c] = 1 => sent[c] = message[c]
        /\ jpc[c] = "end" => calls[c] = 1 /\ did[c] # "none"
        /\ (calls[c] = 1 /\ FetchFailed(c)) =>
               sent[c] # <<>> /\ Contains(sent[c], Description(c))

\* C3 witness: a scheduled job whose report request raised has handed the
\* error text to the Notifier and is at its end.
C3_Witness ==
    \E p \in Procs :
        /\ spc[p] = "firing"
        /\ jpc[p] = "end"
        /\ did[p] = "run_report_raises"
        /\ calls[p] = 1
        /\ sent[p] = Chars("Error fetching analytics data: 403 denied")

\* C4: whenever the provider call raises (constructing the client, the
\* request, or processing a row), get_analytics_data returns to its caller
\* a non-empty string that contains the error description; no fetch
\* returns the empty string.
C4_FetchFailureReturnsErrorText ==
    \A c \in Ctx :
        did[c] # "none" =>
            /\ jpc[c] = "notify"
            /\ message[c] # <<>>
            /\ FetchFailed(c) => Contains(message[c], Description(c))

\* C4 witness: constructing the client raised an error without text, and
\* the fetch returned a non-empty string.
C4_Witness ==
    \E c \in Ctx :
        /\ did[c] = "client_raises"
        /\ ga.err = <<>>
        /\ jpc[c] = "notify"
        /\ message[c] # <<>>

\* The line of the digest for one row, character by character.
ExpectedLine(row) ==
    row.dimension_values[1] \o <<":", " ">> \o row.metric_values[1]
        \o <<" ", "u", "s", "e", "r", "s", "\n">>

\* Where the line of row i starts in the digest of rows: after the header
\* and the lines of the rows before it.
RECURSIVE LineStart(_, _)
LineStart(rows, i) ==
    IF i = 1 THEN Len(Header)
    ELSE LineStart(rows, i - 1) + Len(ExpectedLine(rows[i - 1]))

\* C5: for N rows, each with a country and a user count, the digest is the
\* header followed by exactly N lines, the i-th being
\* "{country}: {users} users\n" of the i-th row: provider order, nothing
\* sorted, merged or dropped.
C5_DigestIsHeaderThenRowsInOrder ==
    \A c \in Ctx :
        (did[c] = "response" /\ ~FetchFailed(c)) =>
            LET rows == ga.rows
                n == Len(rows)
                m == message[c]
            IN /\ Len(m) = LineStart(rows, n + 1)
               /\ SubSeq(m, 1, Len(Header)) = Header
               /\ \A i \in 1..n :
                     SubSeq(m, LineStart(rows, i) + 1, LineStart(rows, i + 1))
                         = ExpectedLine(rows[i])

\* C5 witness: two different rows, DE before US, are rendered in that order.
C5_Witness ==
    \E c \in Ctx :
        /\ did[c] = "response"
        /\ ga.rows = <<Row(Chars("DE"), Chars("45")), Row(Chars("US"), Chars("120"))>>
        /\ message[c] = Header \o Chars("DE: 45 users\nUS: 120 users\n")

\* C6: send_to_discord called with the empty message posts nothing and
\* returns; a post is issued only for a non-empty message.
C6_EmptyMessageIsNotPosted ==
    \A c \in Ctx :
        /\ (calls[c] = 1 /\ sent[c] = <<>>) =>
               posts[c] = 0 /\ jpc[c] = "end" /\ hook[c] = NoOutcome
        /\ posts[c] > 0 => sent[c] # <<>>

\* C6 witness: send_to_discord has been called with the empty message and
\* has returned.
C6_Witness ==
    \E c \in Ctx :
        /\ calls[c] = 1
        /\ sent[c] = <<>>
        /\ jpc[c] = "end"
        /\ log[c] = "skipped"

\* C7: whatever the webhook does (204, another status, a transport
\* failure), send_to_discord returns to its caller, and it logs success
\* exactly for status 204.
C7_NotifierNeverEscalates ==
    \A c \in Ctx :
        hook[c] # NoOutcome =>
            /\ jpc[c] = "end"
            /\ log[c] \in {"success", "failure"}
            /\ log[c] = "success" <=> (hook[c].kind = "status" /\ hook[c].status = 204)

\* C7 witness: the post failed at transport level; send_to_discord logged
\* the failure and returned.
C7_Witness ==
    \E c \in Ctx :
        /\ hook[c].kind = "exception"
        /\ jpc[c] = "end"
        /\ log[c] = "failure"


\* C8 as claimed: every job invocation that reaches its end has issued
\* exactly one report request and exactly one webhook post.
C8_ExactlyOneRequestAndOnePost ==
    \A c \in Ctx : jpc[c] = "end" => reqs[c] = 1 /\ posts[c] = 1

\* C8, amended: a job invocation issues at most one report request (none
\* when constructing the client raised, one otherwise) and exactly one
\* webhook post attempt, whatever their outcomes; a context starts a job
\* only from rest, on its caller's step, never out of a failed fetch or post.
C8_NoRetry ==
    /\ [](\A c \in Ctx :
            /\ reqs[c] <= 1
            /\ posts[c] <= 1
            /\ jpc[c] = "end" =>
                  /\ posts[c] = 1
                  /\ reqs[c] = (IF did[c] = "client_raises" THEN 0 ELSE 1))
    /\ [][\A c \in Ctx :
            (jpc'[c] = "start" /\ jpc[c] # "start") =>
                /\ jpc[c] = "idle"
                /\ IF c \in Procs
                   THEN spc[c] \in {"started", "poll", "sleep"}
                   ELSE rpc[c] = "none"]_vars

\* C8 witness: a job whose report request raised and whose post got status
\* 500 is at its end with one request and one post.
C8_Witness ==
    \E c \in Ctx :
        /\ jpc[c] = "end"
        /\ did[c] = "run_report_raises"
        /\ hook[c] = Status(500)
        /\ reqs[c] = 1
        /\ posts[c] = 1

\* C9: a scheduler thread starts a job either at once, when it starts and
\* before a timer is registered, or from a poll of its loop, a minute's
\* sleep after the previous poll, at which the 10 minutes since the timer
\* was armed have elapsed; a poll that goes back to sleep comes after the
\* minute's sleep and finds the interval not elapsed; no timer exists
\* before the immediate job ended.
C9_ImmediateThenEveryInterval ==
    /\ [](\A p \in Procs : spc[p] \in {"off", "started", "immediate"} => next_run[p] = -1)
    /\ [][\A p \in Procs :
            /\ (jpc[p] = "idle" /\ jpc'[p] = "start") =>
                  \/ spc[p] = "started" /\ spc'[p] = "immediate" /\ next_run[p] = -1
                  \/ /\ spc[p] \in {"poll", "sleep"}
                     /\ spc'[p] = "firing"
                     /\ sleep[p] = 0
                     /\ elapsed[p] >= Interval
            /\ (spc[p] = "sleep" /\ spc'[p] = "sleep" /\ sleep'[p] > sleep[p]) =>
                  sleep[p] = 0 /\ elapsed[p] < Interval]_vars

\* C9 witness: a timed job has been fired by a poll.
C9_Witness ==
    \E p \in Procs : spc[p] = "firing" /\ jpc[p] = "run_report" /\ next_run[p] = 0

\* C10: a /trigger request is answered only when its job has run to its
\* end (fetch, then one notify), and the answer is always 200 with the
\* confirmation text, whatever the fetch and the post did.
C10_TriggerAnswers200AfterJob ==
    /\ [](\A r \in Reqs :
            rpc[r] = "responded" =>
                response[r].status = 200 /\ response[r].body \in {HomeBody, TriggerBody})
    /\ [][\A r \in Reqs :
            (rpc[r] = "trigger" /\ rpc'[r] # "trigger") =>
                /\ jpc[r] = "end"
                /\ did[r] # "none"
                /\ calls[r] = 1
                /\ rpc'[r] = "responded"
                /\ response'[r] = [status |-> 200, body |-> TriggerBody]]_vars

\* C10 witness: a /trigger request has been answered.
C10_Witness ==
    \E r \in Reqs : rpc[r] = "responded" /\ response[r].body = TriggerBody

\* The frame of the job invocation of context c: its position and locals.
Frame(c) ==
    <<jpc[c], message[c], sent[c], log[c], reqs[c], posts[c], calls[c], did[c], hook[c]>>

InProgress(c) == jpc[c] # "idle"

\* C11: while a scheduler-driven job and a /trigger job are both in
\* progress, a step of one leaves the frame of the other untouched; each
\* job calls the Notifier with the string its own fetch returned, and
\* leaves only from its end, after its one notify call; a job blocked in
\* a network call can return whatever the position of the other job.
C11_ConcurrentJobsIndependent ==
    /\ [](\A c \in Ctx :
            /\ jpc[c] \in {"run_report", "post"} =>
                  ENABLED (RunReportReturns(c) \/ PostReturns(c))
            /\ jpc[c] \in {"start", "notify"} =>
                  ENABLED (FetchBegin(c) \/ send_to_discord(c)))
    /\ [][\A p \in Procs, r \in Reqs :
            (InProgress(p) /\ InProgress(r)) =>
                /\ Frame(p)' # Frame(p) => Frame(r)' = Frame(r)
                /\ \A c \in {p, r} :
                      /\ calls'[c] > calls[c] =>
                            /\ did[c] # "none"
                            /\ calls'[c] = 1
                            /\ sent'[c] = message[c]
                            /\ message'[c] = message[c]
                      /\ ~InProgress(c)' => jpc[c] = "end" /\ calls[c] = 1]_vars

\* C11 witness: a timed job and a /trigger job both stand between their
\* fetch and their notify call (line 104), the first holding the error
\* text of its failed fetch, the second the digest of its own fetch.
C11_Witness ==
    \E p \in Procs, r \in Reqs :
        /\ spc[p] = "firing"
        /\ rpc[r] = "trigger"
        /\ jpc[p] = "notify"
        /\ jpc[r] = "notify"
        /\ did[p] = "run_report_raises"
        /\ message[p] = Chars("Error fetching analytics data: 403 denied")
        /\ did[r] = "response"
        /\ message[r] = Header \o Chars("US: 120 users\nDE: 45 users\n")

\* C12: the scheduler thread never ends, whatever the fetches and the
\* posts of its jobs did; and, each job returning, whenever a
\* scheduler-driven job has completed and the loop waits, a timed job
\* eventually fires.
C12_SchedulerRunsForever ==
    /\ [](\A p \in Procs : spc[p] # "dead" /\ jpc[p] # "raised")
    /\ \A p \in Procs :
          (spc[p] \in {"register", "poll", "sleep"}) ~> (spc[p] = "firing")

\* C12 witness: with a malformed property id and a malformed webhook URL
\* every fetch and every post fails; the immediate job has completed so,
\* and a timed job has fired and is at its failing post.
C12_Witness ==
    \E p \in Procs :
        /\ env.GA_PROPERTY_ID = "not a property id"
        /\ env.DISCORD_WEBHOOK_URL = "not a url"
        /\ spc[p] = "firing"
        /\ jpc[p] = "post"
        /\ FetchFailed(p)

\* C13 as claimed: a launch results in at most one running scheduler loop,
\* hence in at most one immediate job at startup.
C13_SingleSchedulerLoop ==
    /\ Cardinality({p \in Procs : spc[p] # "off"}) <= 1
    /\ Cardinality({p \in Procs : spc[p] = "immediate"}) <= 1

\* C14: the main thread goes on to run the server wherever the scheduler
\* thread stands in its immediate job, and wherever a scheduler-driven job
\* stands, whether or not it will ever return, a request to / or to
\* /trigger is accepted, its job runs, and it is answered.
C14_SchedulerDoesNotBlockServing ==
    /\ mpc["parent"] = "app_run" => ENABLED RunWithReloader
    /\ mpc["child"] = "app_run" => ENABLED ServeForever
    /\ \A r \in Reqs :
          /\ (mpc["child"] = "serving" /\ FirstFree(r)) =>
                ENABLED home(r) /\ ENABLED manual_trigger(r)
          /\ (rpc[r] = "trigger" /\ ~Stepping(r)) =>
                ENABLED (RunReportReturns(r) \/ PostReturns(r))
          /\ (rpc[r] = "trigger" /\ Stepping(r)) =>
                ENABLED (FetchBegin(r) \/ send_to_discord(r) \/ TriggerReturns(r))

\* C14 witness: the server serves, and a /trigger request has been answered,
\* while the immediate job of the serving process still waits for its report.
C14_Witness ==
    \E r \in Reqs :
        /\ mpc["child"] = "serving"
        /\ spc["child"] = "immediate"
        /\ jpc["child"] = "run_report"
        /\ rpc[r] = "responded"
        /\ response[r] = [status |-> 200, body |-> TriggerBody]

\* C15: a GET / request is answered in one step with status 200 and the
\* static body; that step starts no job, issues no report request and no
\* webhook post, and leaves every scheduler's position and timers as they
\* were; an answered GET / has no job behind it.
C15_HomeHasNoSideEffects ==
    /\ [](\A r \in Reqs :
            (rpc[r] = "responded" /\ response[r].body = HomeBody) =>
                /\ response[r].status = 200
                /\ jpc[r] = "idle" /\ reqs[r] = 0 /\ posts[r] = 0 /\ calls[r] = 0)
    /\ [][\A r \in Reqs :
            (rpc[r] = "none" /\ rpc'[r] = "responded") =>
                /\ response'[r] = [status |-> 200, body |-> HomeBody]
                /\ UNCHANGED jobvars
                /\ UNCHANGED schedvars
                /\ UNCHANGED <<env, ga, mpc, listening>>]_vars

\* C15 witness: a GET / has been answered while a scheduler sleeps in the
\* middle of its interval.
C15_Witness ==
    \E r \in Reqs :
        /\ rpc[r] = "responded"
        /\ response[r] = [status |-> 200, body |-> HomeBody]
        /\ spc["child"] = "sleep"
        /\ next_run["child"] = 4
        /\ sleep["child"] = 1

\* C16: a fire happens at the poll exactly one interval after the timer was
\* armed; while the fired job runs, however long, nothing becomes due; when
\* it completes after any number of minutes the loop goes back to sleep
\* with the timer armed to one full interval from that moment, so a
\* waiting loop is always exactly one interval from its last arming and a
\* completion is never followed by a fire for ticks missed meanwhile.
C16_NextFireAnIntervalAfterCompletion ==
    /\ [](\A p \in Procs :
            /\ spc[p] = "sleep" => next_run[p] + elapsed[p] = Interval
            /\ spc[p] = "firing" => next_run[p] = 0 /\ elapsed[p] >= Interval)
    /\ [][\A p \in Procs :
            /\ (spc[p] = "firing" /\ spc'[p] # "firing") =>
                  /\ spc'[p] = "sleep"
                  /\ next_run'[p] = Interval
                  /\ elapsed'[p] = 0
                  /\ sleep'[p] = PollSleep
            /\ (spc[p] # "firing" /\ spc'[p] = "firing") =>
                  /\ next_run[p] = 0
                  /\ elapsed[p] = Interval
                  /\ jpc[p] = "idle"]_vars

\* C16 witness: a fired job that has run for MaxOverrun minutes or more is
\* at its end, about to complete.
C16_Witness ==
    \E p \in Procs :
        /\ spc[p] = "firing"
        /\ jpc[p] = "end"
        /\ elapsed[p] = Interval + MaxOverrun

\* C17 as claimed: at every moment at most one job started by a scheduler,
\* the immediate one or a timed one, is in progress.
C17_SchedulerJobsSerialized ==
    \A p, q \in Procs :
        (spc[p] \in {"immediate", "firing"} /\ spc[q] \in {"immediate", "firing"}) => p = q

\* C18: no step of a /trigger request (its acceptance, the steps of its
\* job whatever their outcomes, its answer) changes a scheduler's position,
\* its next due time, its sleep or the frame of a scheduler-driven job;
\* and a timer is armed only by its scheduler thread (on registering and
\* on a fired job's completion), otherwise it only runs down with time.
C18_TriggerLeavesScheduleUnchanged ==
    [][/\ \A r \in Reqs :
            (rpc'[r] # rpc[r] \/ Frame(r)' # Frame(r)) =>
                /\ UNCHANGED <<spc, next_run, sleep, elapsed>>
                /\ \A p \in Procs : Frame(p)' = Frame(p)
       /\ \A p \in Procs :
            next_run'[p] # next_run[p] =>
                \/ next_run'[p] = next_run[p] - 1 /\ spc'[p] = spc[p] /\ rpc' = rpc
                \/ /\ next_run'[p] = Interval
                   /\ spc[p] \in {"register", "firing"}
                   /\ spc'[p] # spc[p]
                   /\ rpc' = rpc]_vars

\* C18 witness: a /trigger job whose post failed is at its end while the
\* scheduler of the serving process sleeps six minutes into its interval.
C18_Witness ==
    \E r \in Reqs :
        /\ rpc[r] = "trigger"
        /\ jpc[r] = "end"
        /\ log[r] = "failure"
        /\ spc["child"] = "sleep"
        /\ next_run["child"] = 4
        /\ elapsed["child"] = 6

====
